---- MODULE Spec2Model ----
(***************************************************************************)
(* Model of agentic_food_analysis.py: the AgenticWorkflowOrchestrator      *)
(* pipeline (Planning, Nutrition, Health, MealPlanning, Verification),     *)
(* the first/last-delimiter JSON extraction with fallback done by each     *)
(* agent, and the VerificationAgent's checks and confidence arithmetic.    *)
(*                                                                         *)
(* Conventions                                                             *)
(*  - A response text is a sequence of lexical tokens.  "{", "}", "[" and  *)
(*    "]" are single characters; a key token stands for  "key":  and a     *)
(*    string / number token for one literal; separators (comma, blanks)    *)
(*    are not represented.  A prose token is a run of characters that is   *)
(*    neither a delimiter nor part of a JSON literal.                      *)
(*  - A JSON number n is carried in thousandths (0.5 is 500, 300 is        *)
(*    300000).  Computed floats are exact rationals <<num, den>>; where a  *)
(*    comparison of a computed float with a literal is decided by IEEE-754 *)
(*    rounding alone (equal exact values, not both binary fractions) both  *)
(*    outcomes are kept, e.g. in CPython sum([0.9, 0.8, 0.4]) / 3 is       *)
(*    0.7000000000000001 and sum([0.9, 0.5, 0.7]) / 3 is                   *)
(*    0.6999999999999998.                                                  *)
(*  - A Python string is a sequence of words; lower() acts word by word    *)
(*    and the substring test  'w' in s  is word membership.                *)
(*                                                                         *)
(* Specifications (all with the same actions, they differ in the responses *)
(* of the generation service and in how calls may overlap)                 *)
(*  - Spec: calls made one after the other, a wide set of responses.       *)
(*  - SpecConcurrent: calls interleaved at their generation calls.         *)
(*  - SpecProgress, SpecEmptyPlan: a suspended call is resumed (fairness). *)
(*  - SpecVerification: nutrition values at and around the thresholds of   *)
(*    the VerificationAgent's checks.                                      *)
(*  - SpecExtraction: responses with and without the JSON delimiters.      *)
(***************************************************************************)
EXTENDS Integers, Sequences, FiniteSets, TLC

\* ------------------------------------------------------------------ bounds
NumTasks == 2
MaxClock == 1
MaxItems == 2

\* ------------------------------------------------------- exact rationals
Abs(x) == IF x < 0 THEN -x ELSE x

\* the element of a one-element set; {e(x) : x \in {v}} names the value v
\* once for all its uses in e
TheOne(S) == CHOOSE x \in S : TRUE

RECURSIVE GCD(_, _)
GCD(a, b) ==
    TheOne({ IF p[2] = 0 THEN p[1] ELSE GCD(p[2], p[1] % p[2]) : p \in {<<a, b>>} })

\* the rational n/d (d > 0) in lowest terms
Rat(n, d) ==
    TheOne({ <<p[1] \div p[3], p[2] \div p[3]>> : p \in {<<n, d, GCD(Abs(n), d)>>} })

RatAdd(x, y) ==
    TheOne({ Rat(p[1][1] * p[2][2] + p[2][1] * p[1][2], p[1][2] * p[2][2])
             : p \in {<<x, y>>} })

RatDiv(x, k) == TheOne({ Rat(v[1], v[2] * k) : v \in {x} })
RatLt(x, y) == x[1] * y[2] < y[1] * x[2]

\* a JSON number given in thousandths, as a float value
Milli(n) == Rat(n, 1000)

RECURSIVE IsPow2(_)
IsPow2(d) == IF d = 1 THEN TRUE ELSE IF d % 2 = 1 THEN FALSE ELSE IsPow2(d \div 2)

\* binary fractions of this size are exact in a double
IsDyadic(x) == IsPow2(x[2])

\* possible results of the float comparison  x > c ; exact says that x was
\* computed without rounding and that c is a binary fraction
FloatGt(x, c, exact) ==
    IF x = c /\ ~exact THEN BOOLEAN ELSE {RatLt(c, x)}

\* ------------------------------------------------------------ JSON values
JNum(n) == [num |-> n]
JStr(w) == [str |-> w]
JArr(s) == [arr |-> s]
JObj(f) == [obj |-> f]

IsNum(v) == DOMAIN v = {"num"}
IsStr(v) == DOMAIN v = {"str"}
IsArr(v) == DOMAIN v = {"arr"}
IsObj(v) == DOMAIN v = {"obj"}

\* --------------------------------------------------------- lexical tokens
LBrace == [ch |-> "{"]
RBrace == [ch |-> "}"]
LBrack == [ch |-> "["]
RBrack == [ch |-> "]"]
Prose == [ch |-> "prose"]
Key(k) == [key |-> k]
NumTok(n) == [num |-> n]
StrTok(w) == [str |-> w]

IsCh(t, c) == DOMAIN t = {"ch"} /\ t.ch = c
IsKeyTok(t) == DOMAIN t = {"key"}

\* writers of response texts
RECURSIVE Flatten(_)
Flatten(ss) == IF ss = <<>> THEN <<>> ELSE Head(ss) \o Flatten(Tail(ss))

Member(k, valueText) == <<Key(k)>> \o valueText
ObjText(members) == <<LBrace>> \o Flatten(members) \o <<RBrace>>
ArrText(elems) == <<LBrack>> \o Flatten(elems) \o <<RBrack>>
NumText(n) == <<NumTok(n)>>
StrText(w) == <<StrTok(w)>>

\* ------------------------------------------------------- str.find / slice
SetMin(S) == CHOOSE x \in S : \A y \in S : x <= y
SetMax(S) == CHOOSE x \in S : \A y \in S : x >= y

\* str.find(c): 0-based index of the first c, -1 when absent
Find(s, c) ==
    LET I == {i \in 1..Len(s) : IsCh(s[i], c)}
    IN IF I = {} THEN -1 ELSE SetMin(I) - 1

\* str.rfind(c): 0-based index of the last c, -1 when absent
RFind(s, c) ==
    LET I == {i \in 1..Len(s) : IsCh(s[i], c)}
    IN IF I = {} THEN -1 ELSE SetMax(I) - 1

\* s[a:b] with Python's index rules (a negative index counts from the end)
PySlice(s, a, b) ==
    LET n == Len(s)
        norm(i) == IF i < 0 THEN (IF n + i < 0 THEN 0 ELSE n + i)
                   ELSE (IF i > n THEN n ELSE i)
        lo == norm(a)
        hi == norm(b)
    IN IF lo >= hi THEN <<>> ELSE SubSeq(s, lo + 1, hi)

\* variant: the slice ends before the last closing delimiter
JsonSliceExclusive(response, open, close) ==
    PySlice(response, Find(response, open), RFind(response, close))

\* response[response.find(open) : response.rfind(close) + 1]
JsonSlice(response, open, close) ==
    PySlice(response, Find(response, open), RFind(response, close) + 1)

\* ------------------------------------------------------------- json.loads
ParseFail == [ok |-> FALSE]

RECURSIVE ParseValue(_, _)
RECURSIVE ParseMembers(_, _, _)
RECURSIVE ParseElems(_, _, _)

\* one JSON value starting at position i (1-based)
ParseValue(s, i) ==
    IF i > Len(s) THEN ParseFail
    ELSE IF DOMAIN s[i] = {"num"} THEN [ok |-> TRUE, val |-> JNum(s[i].num), next |-> i + 1]
    ELSE IF DOMAIN s[i] = {"str"} THEN [ok |-> TRUE, val |-> JStr(s[i].str), next |-> i + 1]
    ELSE IF IsCh(s[i], "{") THEN ParseMembers(s, i + 1, <<>>)
    ELSE IF IsCh(s[i], "[") THEN ParseElems(s, i + 1, <<>>)
    ELSE ParseFail

\* the members of an object up to its closing brace; a repeated key keeps
\* its last value
ParseMembers(s, i, acc) ==
    IF i > Len(s) THEN ParseFail
    ELSE IF IsCh(s[i], "}") THEN [ok |-> TRUE, val |-> JObj(acc), next |-> i + 1]
    ELSE IF IsKeyTok(s[i]) THEN
        TheOne({ IF r.ok THEN ParseMembers(s, r.next, (s[i].key :> r.val) @@ acc)
                 ELSE ParseFail
                 : r \in {ParseValue(s, i + 1)} })
    ELSE ParseFail

\* the elements of an array up to its closing bracket
ParseElems(s, i, acc) ==
    IF i > Len(s) THEN ParseFail
    ELSE IF IsCh(s[i], "]") THEN [ok |-> TRUE, val |-> JArr(acc), next |-> i + 1]
    ELSE TheOne({ IF r.ok THEN ParseElems(s, r.next, Append(acc, r.val))
                  ELSE ParseFail
                  : r \in {ParseValue(s, i)} })

\* json.loads(s): the whole text must be one value (JSONDecodeError if not)
Loads(s) ==
    TheOne({ TheOne({ IF r.ok /\ r.next = Len(str) + 1
                      THEN [ok |-> TRUE, val |-> r.val]
                      ELSE ParseFail
                      : r \in {ParseValue(str, 1)} })
             : str \in {s} })

\* ------------------------------------------------------------ Python str
W(w) == <<w>>

\* str.lower() of one word
LowerWord(w) ==
    CASE w = "SODIUM" -> "sodium"
      [] w = "Sodium" -> "sodium"
      [] w = "Fiber" -> "fiber"
      [] w = "FIBER" -> "fiber"
      [] OTHER -> w

Lower(s) == [i \in 1..Len(s) |-> LowerWord(s[i])]

\* 'w' in s
Contains(s, w) == \E i \in 1..Len(s) : s[i] = w

\* -------------------------------------------------------------- records
ItemKeys == {"name", "category", "estimated_weight", "preparation", "confidence"}

NutritionFields ==
    {"protein", "carbohydrates", "fats", "fiber", "calories", "sodium",
     "sugar", "cholesterol", "vitamin_c", "calcium", "iron"}

RecommendationFields == {"category", "message", "priority", "reasoning"}

SuggestionFields == {"food_name", "category", "reason", "nutritional_benefit"}

\* ------------------------------------------------------- PlanningAgent
FallbackItem ==
    JObj([name |-> JStr(W("unknown_food")), category |-> JStr(W("mixed")),
          estimated_weight |-> JNum(150000), preparation |-> JStr(W("unknown")),
          confidence |-> JNum(500)])

FallbackPlan ==
    JObj([food_items |-> JArr(<<FallbackItem>>),
          complexity |-> JStr(W("moderate")),
          analysis_focus |-> JArr(<<JStr(W("nutrition")), JStr(W("health"))>>),
          special_considerations |-> JArr(<<>>),
          recommended_agents |->
              JArr(<<JStr(W("nutrition")), JStr(W("health")), JStr(W("verification"))>>)])

\* analyze_image_and_plan after the generation call: the parsed object is
\* returned as it is, the fallback plan on JSONDecodeError
PlanFromResponse(response) ==
    TheOne({ IF plan.ok THEN plan.val ELSE FallbackPlan
             : plan \in {Loads(JsonSlice(response, "{", "}"))} })

\* ------------------------------------------------------ NutritionAgent
\* variant: the default nutrition data states 200 calories
FallbackNutritionLowCalories ==
    [protein |-> JNum(20000), carbohydrates |-> JNum(30000), fats |-> JNum(15000),
     fiber |-> JNum(5000), calories |-> JNum(200000), sodium |-> JNum(500000),
     sugar |-> JNum(5000), cholesterol |-> JNum(50000), vitamin_c |-> JNum(10000),
     calcium |-> JNum(100000), iron |-> JNum(2500)]

\* the NutritionData of lines 257-261
FallbackNutrition ==
    [protein |-> JNum(20000), carbohydrates |-> JNum(30000), fats |-> JNum(15000),
     fiber |-> JNum(5000), calories |-> JNum(300000), sodium |-> JNum(500000),
     sugar |-> JNum(5000), cholesterol |-> JNum(50000), vitamin_c |-> JNum(10000),
     calcium |-> JNum(100000), iron |-> JNum(2500)]

\* NutritionData(**d): TypeError unless the keys are exactly the 11 fields
NutritionFromResponse(response) ==
    TheOne({ IF nutrition_data.ok /\ IsObj(nutrition_data.val)
                /\ DOMAIN nutrition_data.val.obj = NutritionFields
             THEN nutrition_data.val.obj ELSE FallbackNutrition
             : nutrition_data \in {Loads(JsonSlice(response, "{", "}"))} })

\* --------------------------------------------------------- HealthAgent
FallbackRecommendations ==
    << [category |-> JStr(W("nutrient_balance")),
        message |-> JStr(<<"Consider", "adding", "more", "vegetables", "to",
                           "increase", "fiber", "and", "micronutrients.">>),
        priority |-> JStr(W("medium")),
        reasoning |-> JStr(<<"Current", "fiber", "content", "could", "be", "higher">>)] >>

\* [Cls(**x) for x in data]: TypeError unless every element is an object
\* with exactly the fields of the dataclass
RecordsOf(data, fields) ==
    IF \A i \in 1..Len(data) : IsObj(data[i]) /\ DOMAIN data[i].obj = fields
    THEN [ok |-> TRUE, val |-> [i \in 1..Len(data) |-> data[i].obj]]
    ELSE [ok |-> FALSE]

RecommendationsFromResponse(response) ==
    TheOne({ IF recommendations_data.ok /\ IsArr(recommendations_data.val)
                /\ RecordsOf(recommendations_data.val.arr, RecommendationFields).ok
             THEN RecordsOf(recommendations_data.val.arr, RecommendationFields).val
             ELSE FallbackRecommendations
             : recommendations_data \in {Loads(JsonSlice(response, "[", "]"))} })

\* --------------------------------------------------- MealPlanningAgent
FallbackSuggestions ==
    << [food_name |-> JStr(<<"Mixed", "green", "salad">>),
        category |-> JStr(W("vegetable")),
        reason |-> JStr(<<"Adds", "fiber", "and", "micronutrients">>),
        nutritional_benefit |-> JStr(<<"Vitamins", "A,", "C,", "K", "and", "folate">>)] >>

SuggestionsFromResponse(response) ==
    TheOne({ IF suggestions_data.ok /\ IsArr(suggestions_data.val)
                /\ RecordsOf(suggestions_data.val.arr, SuggestionFields).ok
             THEN RecordsOf(suggestions_data.val.arr, SuggestionFields).val
             ELSE FallbackSuggestions
             : suggestions_data \in {Loads(JsonSlice(response, "[", "]"))} })

\* ------------------------------------------------------ exceptions
Raise(e) == [ok |-> FALSE, err |-> e]
Return(v) == [ok |-> TRUE, val |-> v]

\* ------------------------------------ orchestrator: FoodItem list, mean
\* what evaluating FoodItem(name=item['name'], ...) raises for one item
ItemError(item) ==
    IF ~IsObj(item) THEN "TypeError"
    ELSE IF ~(ItemKeys \subseteq DOMAIN item.obj) THEN "KeyError"
    ELSE "none"

FoodItem(item) ==
    [name |-> item.obj.name,
     category |-> item.obj.category,
     portion_size |-> [value |-> item.obj.estimated_weight, unit |-> "g"],
     confidence |-> item.obj.confidence,
     preparation_method |-> item.obj.preparation,
     estimated_weight |-> item.obj.estimated_weight]

\* variant: a plan without food items is an error
BuildFoodItemsRejectingEmpty(plan) ==
    IF "food_items" \notin DOMAIN plan.obj THEN Raise("KeyError")
    ELSE LET fi == plan.obj.food_items
         IN IF IsArr(fi) THEN
                LET bad == {i \in 1..Len(fi.arr) : ItemError(fi.arr[i]) # "none"}
                IN IF fi.arr = <<>> THEN Raise("ValueError")
                   ELSE IF bad # {} THEN Raise(ItemError(fi.arr[SetMin(bad)]))
                   ELSE Return([i \in 1..Len(fi.arr) |-> FoodItem(fi.arr[i])])
            ELSE IF IsObj(fi) /\ DOMAIN fi.obj = {} THEN Return(<<>>)
            ELSE IF IsStr(fi) /\ fi.str = <<>> THEN Return(<<>>)
            ELSE Raise("TypeError")

\* [FoodItem(...) for item in plan['food_items']]
BuildFoodItems(plan) ==
    IF "food_items" \notin DOMAIN plan.obj THEN Raise("KeyError")
    ELSE LET fi == plan.obj.food_items
         IN IF IsArr(fi) THEN
                LET bad == {i \in 1..Len(fi.arr) : ItemError(fi.arr[i]) # "none"}
                IN IF bad # {} THEN Raise(ItemError(fi.arr[SetMin(bad)]))
                   ELSE Return([i \in 1..Len(fi.arr) |-> FoodItem(fi.arr[i])])
            ELSE IF IsObj(fi) /\ DOMAIN fi.obj = {} THEN Return(<<>>)
            ELSE IF IsStr(fi) /\ fi.str = <<>> THEN Return(<<>>)
            ELSE Raise("TypeError")

RECURSIVE SumConfidence(_)
SumConfidence(items) ==
    IF items = <<>> THEN Rat(0, 1)
    ELSE RatAdd(Milli(Head(items).confidence.num), SumConfidence(Tail(items)))

\* variant: an empty list gives 0 instead of 0.5
AggregateConfidenceZeroDefault(items) ==
    IF items = <<>> THEN Return(Rat(0, 1))
    ELSE IF \E i \in 1..Len(items) : ~IsNum(items[i].confidence) THEN Raise("TypeError")
    ELSE Return(RatDiv(SumConfidence(items), Len(items)))

\* sum(confidence_scores) / len(confidence_scores) if confidence_scores else 0.5
AggregateConfidence(items) ==
    IF items = <<>> THEN Return(Milli(500))
    ELSE IF \E i \in 1..Len(items) : ~IsNum(items[i].confidence) THEN Raise("TypeError")
    ELSE Return(RatDiv(SumConfidence(items), Len(items)))

\* ---------------------------------------------------- VerificationAgent
Issue(text, args) == [text |-> text, args |-> args]

IssueIf(cond, issue) == IF cond THEN <<issue>> ELSE <<>>

CheckResult(issues, pass, warn) ==
    [ok |-> TRUE,
     confidence |-> IF issues = <<>> THEN Milli(pass) ELSE Milli(warn),
     status |-> IF issues = <<>> THEN "PASS" ELSE "WARNINGS",
     issues |-> issues]

\* variant: a sodium content of 2000 mg is already reported as very high
VerifyNutritionValuesSodiumFrom2000(nutrition) ==
    IF \E f \in {"protein", "carbohydrates", "fats", "calories", "sodium"} :
           ~IsNum(nutrition[f])
    THEN {Raise("TypeError")}
    ELSE LET protein == nutrition.protein.num
             carbs == nutrition.carbohydrates.num
             fats == nutrition.fats.num
             calories == nutrition.calories.num
             calculated_calories == (protein * 4) + (carbs * 4) + (fats * 9)
             exact == \A x \in {protein, carbs, fats, calories} : IsDyadic(Milli(x))
             negative == protein < 0 \/ carbs < 0 \/ fats < 0
         IN { CheckResult(
                 IssueIf(negative, Issue("Negative macronutrient values detected", <<>>))
                 \o IssueIf(mismatch, Issue("Calorie calculation mismatch",
                                            <<calories, calculated_calories>>))
                 \o IssueIf(nutrition.sodium.num >= 2000000,
                            Issue("Very high sodium content detected", <<>>)),
                 900, 600)
              : mismatch \in FloatGt(Milli(Abs(calories - calculated_calories)),
                                     Milli(50000), exact) }

\* _verify_nutrition_values: the possible results
VerifyNutritionValues(nutrition) ==
    IF \E f \in {"protein", "carbohydrates", "fats", "calories", "sodium"} :
           ~IsNum(nutrition[f])
    THEN {Raise("TypeError")}
    ELSE LET protein == nutrition.protein.num
             carbs == nutrition.carbohydrates.num
             fats == nutrition.fats.num
             calories == nutrition.calories.num
             calculated_calories == (protein * 4) + (carbs * 4) + (fats * 9)
             exact == \A x \in {protein, carbs, fats, calories} : IsDyadic(Milli(x))
             negative == protein < 0 \/ carbs < 0 \/ fats < 0
         IN { CheckResult(
                 IssueIf(negative, Issue("Negative macronutrient values detected", <<>>))
                 \o IssueIf(mismatch, Issue("Calorie calculation mismatch",
                                            <<calories, calculated_calories>>))
                 \o IssueIf(nutrition.sodium.num > 2000000,
                            Issue("Very high sodium content detected", <<>>)),
                 900, 600)
              : mismatch \in FloatGt(Milli(Abs(calories - calculated_calories)),
                                     Milli(50000), exact) }

\* any(word in rec.message.lower() for rec in recommendations)
RECURSIVE AnyMentions(_, _)
AnyMentions(recs, word) ==
    IF recs = <<>> THEN Return(FALSE)
    ELSE IF ~IsStr(Head(recs).message) THEN Raise("AttributeError")
    ELSE IF Contains(Lower(Head(recs).message.str), word) THEN Return(TRUE)
    ELSE AnyMentions(Tail(recs), word)

\* variant: a sodium content of 800 mg already counts as high
VerifyRecommendationsSodiumFrom800(recommendations, nutrition) ==
    IF ~IsNum(nutrition.fiber) THEN Raise("TypeError")
    ELSE LET high_sodium == nutrition.sodium.num >= 800000
             low_fiber == nutrition.fiber.num < 5000
             sodium_addressed == AnyMentions(recommendations, "sodium")
             fiber_addressed == AnyMentions(recommendations, "fiber")
         IN IF ~sodium_addressed.ok THEN sodium_addressed
            ELSE IF ~fiber_addressed.ok THEN fiber_addressed
            ELSE CheckResult(
                    IssueIf(recommendations = <<>>,
                            Issue("No health recommendations provided", <<>>))
                    \o IssueIf(high_sodium /\ ~sodium_addressed.val,
                               Issue("High sodium not addressed in recommendations", <<>>))
                    \o IssueIf(low_fiber /\ ~fiber_addressed.val,
                               Issue("Low fiber not addressed in recommendations", <<>>)),
                    800, 500)

\* _verify_recommendations (the sodium value has passed the nutrition check)
VerifyRecommendations(recommendations, nutrition) ==
    IF ~IsNum(nutrition.fiber) THEN Raise("TypeError")
    ELSE LET high_sodium == nutrition.sodium.num > 800000
             low_fiber == nutrition.fiber.num < 5000
             sodium_addressed == AnyMentions(recommendations, "sodium")
             fiber_addressed == AnyMentions(recommendations, "fiber")
         IN IF ~sodium_addressed.ok THEN sodium_addressed
            ELSE IF ~fiber_addressed.ok THEN fiber_addressed
            ELSE CheckResult(
                    IssueIf(recommendations = <<>>,
                            Issue("No health recommendations provided", <<>>))
                    \o IssueIf(high_sodium /\ ~sodium_addressed.val,
                               Issue("High sodium not addressed in recommendations", <<>>))
                    \o IssueIf(low_fiber /\ ~fiber_addressed.val,
                               Issue("Low fiber not addressed in recommendations", <<>>)),
                    800, 500)

\* variant: the confidence_score of the result is left out of the mean
OverallConfidenceTwoTerms(nutrition_check, recommendation_check, result) ==
    RatDiv(RatAdd(nutrition_check.confidence, recommendation_check.confidence), 2)

\* sum(confidence_factors) / len(confidence_factors)
OverallConfidence(nutrition_check, recommendation_check, result) ==
    RatDiv(RatAdd(RatAdd(nutrition_check.confidence, recommendation_check.confidence),
                  result.confidence_score), 3)

\* overall_confidence > 0.7
Verified(overall_confidence) == FloatGt(overall_confidence, Rat(7, 10), FALSE)

\* _suggest_improvements: the possible lists
SuggestImprovements(result) ==
    { IssueIf(low, "Consider requesting clearer food images for better identification")
      \o IssueIf(Len(result.health_recommendations) < 3,
                 "Generate more comprehensive health recommendations")
      \o IssueIf(result.meal_suggestions = <<>>,
                 "Include meal planning suggestions for complete nutrition")
      : low \in FloatGt(Rat(4, 5), result.confidence_score, FALSE) }

\* the outcomes of verify_analysis for given results of the two checks: the
\* exception a check raised, else a verification record (the summary text
\* repeats status, confidence and issues)
VerifyOutcomes(result, nutrition_check, recommendation_check) ==
    IF ~nutrition_check.ok THEN {nutrition_check}
    ELSE IF ~recommendation_check.ok THEN {recommendation_check}
    ELSE UNION { { [ok |-> TRUE,
                    verified |-> v,
                    confidence |-> overall_confidence,
                    nutrition_status |-> nutrition_check.status,
                    recommendation_status |-> recommendation_check.status,
                    issues |-> nutrition_check.issues \o recommendation_check.issues,
                    recommendations_for_improvement |-> imp]
                   : v \in Verified(overall_confidence),
                     imp \in SuggestImprovements(result) }
                 : overall_confidence \in
                       {OverallConfidence(nutrition_check, recommendation_check, result)} }

\* verify_analysis: the possible outcomes; the recommendation check runs
\* only when the nutrition check has not raised
VerifyAnalysis(result) ==
    UNION { UNION { VerifyOutcomes(result, nutrition_check, recommendation_check)
                    : recommendation_check \in
                          { IF nutrition_check.ok
                            THEN VerifyRecommendations(result.health_recommendations,
                                                       result.nutrition)
                            ELSE nutrition_check } }
            : nutrition_check \in VerifyNutritionValues(result.nutrition) }

\* variant: the verification confidence replaces the aggregate
FinalConfidenceReplaced(overall_confidence, verification) ==
    verification.confidence

\* (overall_confidence + verification['confidence']) / 2
FinalConfidence(overall_confidence, verification) ==
    RatDiv(RatAdd(overall_confidence, verification.confidence), 2)

\* f"{x:.2f}" of a non-negative value, in hundredths (an exact half goes to
\* the even neighbour)
Fmt2(x) ==
    LET q == (x[1] * 100) \div x[2]
        r == (x[1] * 100) % x[2]
    IN IF 2 * r > x[2] \/ (2 * r = x[2] /\ q % 2 = 1) THEN q + 1 ELSE q

\* ------------------------------------------ responses of the generation
\* service (call_llm returns the text of the completion or raises)
ConfValues == {400, 1500}

ConfLists == UNION {[1..n -> ConfValues] : n \in 0..MaxItems}

ItemText(nameText, confText) ==
    ObjText(<<Member("name", nameText),
              Member("category", StrText(W("fruit"))),
              Member("estimated_weight", NumText(120000)),
              Member("preparation", StrText(W("raw"))),
              Member("confidence", confText)>>)

PlanText(itemTexts) ==
    ObjText(<<Member("food_items", ArrText(itemTexts)),
              Member("complexity", StrText(W("simple")))>>)

PlanningTexts ==
    { <<Prose>> \o PlanText([i \in 1..Len(cs) |->
                               ItemText(StrText(W("apple")), NumText(cs[i]))])
      \o <<Prose>> : cs \in ConfLists }
    \cup { <<Prose, Prose>>,
           <<LBrace, Prose, RBrace>>,
           ObjText(<<Member("complexity", StrText(W("simple")))>>),
           PlanText(<<ObjText(<<Member("name", StrText(W("apple")))>>)>>),
           PlanText(<<ItemText(StrText(W("apple")), StrText(W("high")))>>),
           PlanText(<<ItemText(NumText(7000), NumText(1000))>>) }

NutritionOrder ==
    <<"protein", "carbohydrates", "fats", "fiber", "calories", "sodium",
      "sugar", "cholesterol", "vitamin_c", "calcium", "iron">>

NutritionText(keys, vals) ==
    ObjText([i \in 1..Len(keys) |-> Member(keys[i], vals[keys[i]])])

BalancedMeal ==
    [protein |-> NumText(20000), carbohydrates |-> NumText(30000),
     fats |-> NumText(15000), fiber |-> NumText(6000), calories |-> NumText(335000),
     sodium |-> NumText(500000), sugar |-> NumText(5000),
     cholesterol |-> NumText(50000), vitamin_c |-> NumText(10000),
     calcium |-> NumText(100000), iron |-> NumText(2500)]

NutritionTexts ==
    { <<Prose>> \o NutritionText(NutritionOrder, BalancedMeal),
      NutritionText(NutritionOrder,
                    [BalancedMeal EXCEPT !.calories = NumText(100000),
                                         !.sodium = NumText(2500000),
                                         !.fiber = NumText(3000)]),
      NutritionText(NutritionOrder,
                    [BalancedMeal EXCEPT !.protein = NumText(-5000),
                                         !.calories = NumText(235000)]),
      NutritionText(NutritionOrder,
                    [BalancedMeal EXCEPT !.protein = StrText(W("plenty"))]),
      NutritionText(SubSeq(NutritionOrder, 1, 10), BalancedMeal) }

RecommendationText(messageText) ==
    ObjText(<<Member("category", StrText(W("nutrient_balance"))),
              Member("message", messageText),
              Member("priority", StrText(W("high"))),
              Member("reasoning", StrText(W("balance")))>>)

HealthTexts ==
    { <<Prose>> \o ArrText(<<RecommendationText(
                    StrText(<<"Reduce", "SODIUM", "and", "add", "Fiber">>))>>),
      ArrText(<<>>),
      ArrText(<<RecommendationText(StrText(<<"Drink", "water">>))>>) \o <<Prose>>,
      ArrText(<<RecommendationText(NumText(1000))>>),
      ArrText(<<ObjText(<<Member("message", StrText(<<"Drink", "water">>))>>)>>) }

SuggestionText ==
    ObjText(<<Member("food_name", StrText(W("spinach"))),
              Member("category", StrText(W("vegetable"))),
              Member("reason", StrText(W("iron"))),
              Member("nutritional_benefit", StrText(W("iron")))>>)

MealTexts ==
    { <<Prose>> \o ArrText(<<SuggestionText>>) \o <<Prose>>,
      <<Prose, RBrack, Prose, LBrack>> }

Responses(texts) ==
    {[ok |-> TRUE, text |-> x] : x \in texts} \cup {Raise("API call failed")}

\* a generation service that answers each agent's request the same way on
\* every call
Clients ==
    [planning : Responses(PlanningTexts), nutrition : Responses(NutritionTexts),
     health : Responses(HealthTexts), meal_planning : Responses(MealTexts)]

\* ------------------------------------------------------------- state
Tasks == 1..NumTasks

Stages == <<"Planning", "Nutrition", "Health", "MealPlanning", "Verification">>

StageMessage ==
    [Planning |-> "Planning Agent: Analyzing image and creating analysis strategy",
     Nutrition |-> "Nutrition Agent: Calculating comprehensive nutrition data",
     Health |-> "Health Agent: Generating personalized health recommendations",
     MealPlanning |-> "Meal Planning Agent: Suggesting complementary foods",
     Verification |-> "Verification Agent: Validating analysis results"]

\* a local that is not bound yet: None for a record, NoList for a list or a
\* float, NoTime for a time
None == [none |-> TRUE]

NoList == <<>>

NoTime == -1

NoException == "none"

\* the user_profile arguments: None (the default) or a profile
Profiles == {None, [age |-> 30, goals |-> <<"weight_loss">>]}

VARIABLES
    client,                 \* the generation service behind call_llm
    clock,                  \* datetime.now()
    coordination_log,       \* self.coordination_log: the list object it names
    lists,                  \* the list objects: 0 made by __init__, t by call t
    pc,                     \* where each analyze_food_image call is suspended
    start_time,             \* locals of each call
    plan,
    food_items,
    nutrition,
    health_recommendations,
    meal_suggestions,
    overall_confidence,
    preliminary_result,
    verification,
    result,                 \* the AnalysisResult returned to the caller
    raised,                 \* the exception propagated to the caller
    invoked,                \* history: the stages each call has invoked
    user_profile,           \* the user_profile argument of each call
    received,               \* history: the arguments of each stage invoked
    calls                   \* history: the agents whose call_llm each call awaited

locals ==
    <<start_time, plan, food_items, nutrition, health_recommendations,
      meal_suggestions, overall_confidence, preliminary_result, verification>>

vars ==
    <<client, clock, coordination_log, lists, pc, locals, result, raised, invoked,
      user_profile, received, calls>>

InitWith(clients) ==
    /\ client \in clients
    /\ clock = 0
    /\ coordination_log = 0
    /\ lists = [l \in 0..NumTasks |-> <<>>]
    /\ pc = [t \in Tasks |-> "idle"]
    /\ start_time = [t \in Tasks |-> NoTime]
    /\ plan = [t \in Tasks |-> None]
    /\ food_items = [t \in Tasks |-> NoList]
    /\ nutrition = [t \in Tasks |-> None]
    /\ health_recommendations = [t \in Tasks |-> NoList]
    /\ meal_suggestions = [t \in Tasks |-> NoList]
    /\ overall_confidence = [t \in Tasks |-> NoList]
    /\ preliminary_result = [t \in Tasks |-> None]
    /\ verification = [t \in Tasks |-> None]
    /\ result = [t \in Tasks |-> None]
    /\ raised = [t \in Tasks |-> NoException]
    /\ invoked = [t \in Tasks |-> <<>>]
    /\ user_profile = [t \in Tasks |-> None]
    /\ received = [t \in Tasks |-> <<>>]
    /\ calls = [t \in Tasks |-> <<>>]

Init == InitWith(Clients)

\* _log: the entry (by: the call that appends it, not part of the string)
LogEntry(t, text, args) == [ts |-> clock, text |-> text, args |-> args, by |-> t]

\* _log on the list self.coordination_log names now
Logged(ls, e) == [ls EXCEPT ![coordination_log] = Append(@, e)]

InFlight(t) == pc[t] \notin {"idle", "done", "failed"}

\* no other call is between two suspension points
MayRun(t) == \A u \in Tasks \ {t} : pc[u] # "verification"

\* variant: the error is re-raised without a log entry
FailUnlogged(t, err, ls) ==
    /\ lists' = ls
    /\ pc' = [pc EXCEPT ![t] = "failed"]
    /\ raised' = [raised EXCEPT ![t] = err]
    /\ UNCHANGED <<result, coordination_log>>

\* except Exception as e: self._log(f"Error in workflow: {str(e)}"); raise
Fail(t, err, ls) ==
    /\ lists' = Logged(ls, LogEntry(t, "Error in workflow", <<err>>))
    /\ pc' = [pc EXCEPT ![t] = "failed"]
    /\ raised' = [raised EXCEPT ![t] = err]
    /\ UNCHANGED <<result, coordination_log>>

\* the generation calls made when the agent of a stage has run up to its
\* next suspension: the Planning, Nutrition, Health and MealPlanning agents
\* await call_llm once (lines 178, 245, 321, 387), verify_analysis does not
AfterAgent(made, next) == IF next \in DOMAIN client THEN Append(made, next) ELSE made

\* variant: the stage's agent is called without the log entry
EnterStageUnlogged(t, stage, next, args) ==
    /\ lists' = lists
    /\ invoked' = [invoked EXCEPT ![t] = Append(@, stage)]
    /\ received' = [received EXCEPT ![t] = Append(@, args)]
    /\ calls' = [calls EXCEPT ![t] = AfterAgent(@, next)]
    /\ pc' = [pc EXCEPT ![t] = next]
    /\ UNCHANGED <<result, raised, coordination_log>>

\* self._log(<stage message>) and the call of the stage's agent with the
\* arguments args, up to the point where the call is suspended next
EnterStage(t, stage, next, args) ==
    /\ lists' = Logged(lists, LogEntry(t, StageMessage[stage], <<>>))
    /\ invoked' = [invoked EXCEPT ![t] = Append(@, stage)]
    /\ received' = [received EXCEPT ![t] = Append(@, args)]
    /\ calls' = [calls EXCEPT ![t] = AfterAgent(@, next)]
    /\ pc' = [pc EXCEPT ![t] = next]
    /\ UNCHANGED <<result, raised, coordination_log>>

Tick ==
    /\ clock < MaxClock
    /\ clock' = clock + 1
    /\ UNCHANGED <<client, coordination_log, lists, pc, locals, result, raised, invoked,
                   user_profile, received, calls>>

\* the arguments of the stages' agents: lines 538, 551, 555-557, 561-563, 582
PlanningArgs == [image_base64 |-> "image"]

NutritionArgs(p) == [food_items |-> p.obj.food_items, plan |-> p]

HealthArgs(n, p, profile) ==
    [nutrition |-> n, food_items |-> p.obj.food_items, user_profile |-> profile]

\* variant: the MealPlanning agent is given the default nutrition data
MealPlanningArgsFallbackNutrition(n, p) ==
    [nutrition |-> FallbackNutrition, food_items |-> p.obj.food_items]

MealPlanningArgs(n, p) == [nutrition |-> n, food_items |-> p.obj.food_items]

VerificationArgs(r) == [result |-> r]

\* variant: the log of the orchestrator is not reset at the start of a call
StartKeepingLog(t) ==
    /\ pc[t] = "idle"
    /\ \A u \in Tasks : u < t => pc[u] # "idle"
    /\ MayRun(t)
    /\ coordination_log' = coordination_log
    /\ lists' = Logged(lists, LogEntry(t, StageMessage.Planning, <<>>))
    /\ start_time' = [start_time EXCEPT ![t] = clock]
    /\ \E profile \in Profiles : user_profile' = [user_profile EXCEPT ![t] = profile]
    /\ invoked' = [invoked EXCEPT ![t] = Append(@, "Planning")]
    /\ received' = [received EXCEPT ![t] = Append(@, PlanningArgs)]
    /\ calls' = [calls EXCEPT ![t] = AfterAgent(@, "planning")]
    /\ pc' = [pc EXCEPT ![t] = "planning"]
    /\ UNCHANGED <<client, clock, plan, food_items, nutrition, health_recommendations,
                   meal_suggestions, overall_confidence, preliminary_result,
                   verification, result, raised>>

\* analyze_food_image up to the generation call of the Planning agent
Start(t) ==
    /\ pc[t] = "idle"
    /\ \A u \in Tasks : u < t => pc[u] # "idle"
    /\ MayRun(t)
    /\ coordination_log' = t
    /\ lists' = [lists EXCEPT ![t] = <<LogEntry(t, StageMessage.Planning, <<>>)>>]
    /\ start_time' = [start_time EXCEPT ![t] = clock]
    /\ \E profile \in Profiles : user_profile' = [user_profile EXCEPT ![t] = profile]
    /\ invoked' = [invoked EXCEPT ![t] = Append(@, "Planning")]
    /\ received' = [received EXCEPT ![t] = Append(@, PlanningArgs)]
    /\ calls' = [calls EXCEPT ![t] = AfterAgent(@, "planning")]
    /\ pc' = [pc EXCEPT ![t] = "planning"]
    /\ UNCHANGED <<client, clock, plan, food_items, nutrition, health_recommendations,
                   meal_suggestions, overall_confidence, preliminary_result,
                   verification, result, raised>>

\* one call at a time on the orchestrator
StartAlone(t) ==
    /\ \A u \in Tasks : ~InFlight(u)
    /\ Start(t)

\* call_llm raises in the agent the call is suspended in
GenerationFails(t) ==
    /\ pc[t] \in {"planning", "nutrition", "health", "meal_planning"}
    /\ MayRun(t)
    /\ ~client[pc[t]].ok
    /\ Fail(t, client[pc[t]].err, lists)
    /\ UNCHANGED <<client, clock, locals, invoked, user_profile, received, calls>>

\* the Planning agent's call returns: lines 180-197, 540-551
PlanningReturns(t) ==
    /\ pc[t] = "planning"
    /\ MayRun(t)
    /\ client.planning.ok
    /\ \E p \in {PlanFromResponse(client.planning.text)} :
       \E items \in {BuildFoodItems(p)} :
          /\ plan' = [plan EXCEPT ![t] = p]
          /\ IF items.ok
             THEN /\ food_items' = [food_items EXCEPT ![t] = items.val]
                  /\ EnterStage(t, "Nutrition", "nutrition", NutritionArgs(p))
             ELSE /\ Fail(t, items.err, lists)
                  /\ UNCHANGED <<food_items, invoked, received, calls>>
    /\ UNCHANGED <<client, clock, start_time, nutrition, health_recommendations,
                   meal_suggestions, overall_confidence, preliminary_result,
                   verification, user_profile>>

\* variant: the MealPlanning stage is started before the Health stage
NutritionReturnsSkippingHealth(t) ==
    /\ pc[t] = "nutrition"
    /\ MayRun(t)
    /\ client.nutrition.ok
    /\ \E n \in {NutritionFromResponse(client.nutrition.text)} :
          /\ nutrition' = [nutrition EXCEPT ![t] = n]
          /\ EnterStage(t, "MealPlanning", "meal_planning", MealPlanningArgs(n, plan[t]))
    /\ UNCHANGED <<client, clock, start_time, plan, food_items, health_recommendations,
                   meal_suggestions, overall_confidence, preliminary_result,
                   verification, user_profile>>

\* the Nutrition agent's call returns: lines 247-261, 553-557
NutritionReturns(t) ==
    /\ pc[t] = "nutrition"
    /\ MayRun(t)
    /\ client.nutrition.ok
    /\ \E n \in {NutritionFromResponse(client.nutrition.text)} :
          /\ nutrition' = [nutrition EXCEPT ![t] = n]
          /\ EnterStage(t, "Health", "health", HealthArgs(n, plan[t], user_profile[t]))
    /\ UNCHANGED <<client, clock, start_time, plan, food_items, health_recommendations,
                   meal_suggestions, overall_confidence, preliminary_result,
                   verification, user_profile>>

\* the Health agent's call returns: lines 323-340, 559-563 and the prompt
\* of the MealPlanning agent (lines 353-358), whose ', '.join(current_foods)
\* raises TypeError for a name that is not a string
HealthReturns(t) ==
    /\ pc[t] = "health"
    /\ MayRun(t)
    /\ client.health.ok
    /\ health_recommendations' =
           [health_recommendations EXCEPT ![t] =
                RecommendationsFromResponse(client.health.text)]
    /\ IF \A i \in 1..Len(food_items[t]) : IsStr(food_items[t][i].name)
       THEN EnterStage(t, "MealPlanning", "meal_planning",
                       MealPlanningArgs(nutrition[t], plan[t]))
       ELSE /\ Fail(t, "TypeError",
                    Logged(lists, LogEntry(t, StageMessage.MealPlanning, <<>>)))
            /\ invoked' = [invoked EXCEPT ![t] = Append(@, "MealPlanning")]
            /\ received' = [received EXCEPT ![t] =
                                Append(@, MealPlanningArgs(nutrition[t], plan[t]))]
            /\ UNCHANGED calls
    /\ UNCHANGED <<client, clock, start_time, plan, food_items, nutrition,
                   meal_suggestions, overall_confidence, preliminary_result,
                   verification, user_profile>>

\* variant: the result handed to Verification carries an empty log
PreliminaryResultWithoutLog(t, suggestions, confidence) ==
    [food_items |-> food_items[t],
     nutrition |-> nutrition[t],
     health_recommendations |-> health_recommendations[t],
     meal_suggestions |-> suggestions,
     confidence_score |-> confidence,
     analysis_timestamp |-> start_time[t],
     agent_coordination_log |-> <<>>]

\* the AnalysisResult of lines 570-578 (its log is a copy of the list)
PreliminaryResult(t, suggestions, confidence) ==
    [food_items |-> food_items[t],
     nutrition |-> nutrition[t],
     health_recommendations |-> health_recommendations[t],
     meal_suggestions |-> suggestions,
     confidence_score |-> confidence,
     analysis_timestamp |-> start_time[t],
     agent_coordination_log |-> lists[coordination_log]]

\* the MealPlanning agent's call returns: lines 389-406, 565-582 up to the
\* call of verify_analysis
MealPlanningReturns(t) ==
    /\ pc[t] = "meal_planning"
    /\ MayRun(t)
    /\ client.meal_planning.ok
    /\ \E suggestions \in {SuggestionsFromResponse(client.meal_planning.text)} :
       \E confidence \in {AggregateConfidence(food_items[t])} :
          /\ meal_suggestions' = [meal_suggestions EXCEPT ![t] = suggestions]
          /\ IF confidence.ok
             THEN /\ overall_confidence' =
                         [overall_confidence EXCEPT ![t] = confidence.val]
                  /\ \E r \in {PreliminaryResult(t, suggestions, confidence.val)} :
                        /\ preliminary_result' = [preliminary_result EXCEPT ![t] = r]
                        /\ EnterStage(t, "Verification", "verification",
                                      VerificationArgs(r))
             ELSE /\ Fail(t, confidence.err, lists)
                  /\ UNCHANGED <<overall_confidence, preliminary_result, invoked,
                                 received, calls>>
    /\ UNCHANGED <<client, clock, start_time, plan, food_items, nutrition,
                   health_recommendations, verification, user_profile>>

\* variant: a result without the meal suggestions
PartialResult(t, confidence) ==
    [food_items |-> food_items[t],
     nutrition |-> nutrition[t],
     health_recommendations |-> health_recommendations[t],
     confidence_score |-> confidence,
     analysis_timestamp |-> start_time[t],
     agent_coordination_log |-> coordination_log]

\* the AnalysisResult of lines 590-598 (its log is the list itself)
FinalResult(t, confidence) ==
    [food_items |-> food_items[t],
     nutrition |-> nutrition[t],
     health_recommendations |-> health_recommendations[t],
     meal_suggestions |-> meal_suggestions[t],
     confidence_score |-> confidence,
     analysis_timestamp |-> start_time[t],
     agent_coordination_log |-> coordination_log]

\* variant: Verification writes the adjusted confidence into the result it
\* was given
VerifyAdjustingResult(t) ==
    /\ pc[t] = "verification"
    /\ \E outcome \in VerifyAnalysis(preliminary_result[t]) :
          IF outcome.ok
          THEN \E final_confidence \in {FinalConfidence(overall_confidence[t], outcome)} :
                  /\ verification' = [verification EXCEPT ![t] = outcome]
                  /\ lists' = Logged(lists, LogEntry(t, "Analysis completed with confidence",
                                                     <<Fmt2(final_confidence)>>))
                  /\ result' = [result EXCEPT ![t] = FinalResult(t, final_confidence)]
                  /\ pc' = [pc EXCEPT ![t] = "done"]
                  /\ preliminary_result' =
                         [preliminary_result EXCEPT ![t].confidence_score = final_confidence]
                  /\ UNCHANGED <<raised, coordination_log>>
          ELSE /\ Fail(t, outcome.err, lists)
               /\ UNCHANGED <<verification, preliminary_result>>
    /\ UNCHANGED <<client, clock, start_time, plan, food_items, nutrition,
                   health_recommendations, meal_suggestions, overall_confidence,
                   invoked, user_profile, received, calls>>

\* verify_analysis (it never suspends) and lines 584-600
Verify(t) ==
    /\ pc[t] = "verification"
    /\ \E outcome \in VerifyAnalysis(preliminary_result[t]) :
          IF outcome.ok
          THEN \E final_confidence \in {FinalConfidence(overall_confidence[t], outcome)} :
                  /\ verification' = [verification EXCEPT ![t] = outcome]
                  /\ lists' = Logged(lists, LogEntry(t, "Analysis completed with confidence",
                                                     <<Fmt2(final_confidence)>>))
                  /\ result' = [result EXCEPT ![t] = FinalResult(t, final_confidence)]
                  /\ pc' = [pc EXCEPT ![t] = "done"]
                  /\ UNCHANGED <<raised, coordination_log>>
          ELSE /\ Fail(t, outcome.err, lists)
               /\ UNCHANGED verification
    /\ UNCHANGED <<client, clock, start_time, plan, food_items, nutrition,
                   health_recommendations, meal_suggestions, overall_confidence,
                   preliminary_result, invoked, user_profile, received, calls>>

\* calls of analyze_food_image made one after the other
Next ==
    \/ Tick
    \/ \E t \in Tasks :
          \/ StartAlone(t)
          \/ GenerationFails(t)
          \/ PlanningReturns(t)
          \/ NutritionReturns(t)
          \/ HealthReturns(t)
          \/ MealPlanningReturns(t)
          \/ Verify(t)

Spec == Init /\ [][Next]_vars

\* calls of analyze_food_image on one orchestrator that run as concurrent
\* tasks of one event loop
ConcurrentClients ==
    [planning : Responses({<<Prose, Prose>>}),
     nutrition : Responses({<<Prose>> \o NutritionText(NutritionOrder, BalancedMeal)}),
     health : Responses({ArrText(<<>>)}),
     meal_planning : Responses({ArrText(<<>>)})]

InitConcurrent == InitWith(ConcurrentClients)

NextConcurrent ==
    \/ Tick
    \/ \E t \in Tasks :
          \/ Start(t)
          \/ GenerationFails(t)
          \/ PlanningReturns(t)
          \/ NutritionReturns(t)
          \/ HealthReturns(t)
          \/ MealPlanningReturns(t)
          \/ Verify(t)

SpecConcurrent == InitConcurrent /\ [][NextConcurrent]_vars

\* a small set of services for the progress property: every stage answers
\* with a well-formed text, with a text that makes the run raise later, or
\* fails
ProgressClients ==
    [planning : Responses({<<Prose, Prose>>,
                           ObjText(<<Member("complexity", StrText(W("simple")))>>),
                           PlanText(<<ItemText(StrText(W("apple")), StrText(W("high")))>>),
                           PlanText(<<ItemText(NumText(7000), NumText(1000))>>)}),
     nutrition : Responses({<<Prose>> \o NutritionText(NutritionOrder, BalancedMeal),
                            NutritionText(NutritionOrder,
                                [BalancedMeal EXCEPT !.protein = StrText(W("plenty"))])}),
     health : Responses({ArrText(<<>>), ArrText(<<RecommendationText(NumText(1000))>>)}),
     meal_planning : Responses({ArrText(<<>>)})]

InitProgress == InitWith(ProgressClients)

\* a suspended call is resumed: its generation call returns or fails, and
\* the event loop runs every coroutine that can run
Resume(t) ==
    \/ GenerationFails(t)
    \/ PlanningReturns(t)
    \/ NutritionReturns(t)
    \/ HealthReturns(t)
    \/ MealPlanningReturns(t)
    \/ Verify(t)

SpecProgress ==
    InitProgress /\ [][Next]_vars /\ \A t \in Tasks : WF_vars(Resume(t))

\* services for the checks of the VerificationAgent: the Nutrition agent's
\* response ranges over macronutrients, calories at, around and far from
\* the calculated value (once with values that are no binary fractions),
\* sodium and fiber at and around the thresholds, and one negative value in
\* each field
MacroCases == {<<20000, 30000, 15000>>, <<-5000, 30000, 15000>>}

CalorieOffsets == {0, 50000, -50000, 50001, -50001, -35000, -235000}

\* protein 0.2, carbohydrates 30, fats 0 (calculated 120.8) with calories
\* 170.8: in CPython abs(170.8 - ((0.2 * 4) + (30 * 4) + (0 * 9))) is
\* 50.000000000000014
InexactTieText ==
    NutritionText(NutritionOrder,
                  [BalancedMeal EXCEPT !.protein = NumText(200),
                                       !.fats = NumText(0),
                                       !.calories = NumText(170800)])

SodiumCases == {500000, 800000, 1500000, 2000000, 2500000}

FiberCases == {3000, 5000}

CalculatedMilli(m) == (m[1] * 4) + (m[2] * 4) + (m[3] * 9)

VerificationNutritionTexts ==
    { NutritionText(NutritionOrder,
                    [BalancedMeal EXCEPT !.protein = NumText(m[1]),
                                         !.carbohydrates = NumText(m[2]),
                                         !.fats = NumText(m[3]),
                                         !.calories = NumText(CalculatedMilli(m) + d)])
      : m \in MacroCases, d \in CalorieOffsets }
    \cup { InexactTieText }
    \cup { NutritionText(NutritionOrder,
                         [BalancedMeal EXCEPT !.sodium = NumText(na),
                                              !.fiber = NumText(fb)])
           : na \in SodiumCases, fb \in FiberCases }
    \cup { NutritionText(NutritionOrder,
                         [BalancedMeal EXCEPT !.calories = NumText(100000),
                                              !.sodium = NumText(2500000),
                                              !.fiber = NumText(3000)]) }
    \cup { NutritionText(NutritionOrder, [BalancedMeal EXCEPT ![f] = NumText(-1000)])
           : f \in NutritionFields }

VerificationClients ==
    [planning : {[ok |-> TRUE, text |-> <<Prose, Prose>>]},
     nutrition : {[ok |-> TRUE, text |-> x] : x \in VerificationNutritionTexts},
     health : Responses(HealthTexts \ {ArrText(<<RecommendationText(NumText(1000))>>)}),
     meal_planning : {[ok |-> TRUE, text |-> ArrText(<<>>)]}]

InitVerification == InitWith(VerificationClients)

SpecVerification == InitVerification /\ [][Next]_vars

\* services whose Planning agent's response holds an empty food-item list
\* (and, for contrast, one that makes the agent fall back to its one-item
\* plan); every generation call returns or fails
EmptyPlanClients ==
    [planning : Responses({<<Prose>> \o PlanText(<<>>) \o <<Prose>>,
                           PlanText(<<>>),
                           <<Prose, Prose>>}),
     nutrition : Responses({<<Prose>> \o NutritionText(NutritionOrder, BalancedMeal),
                            <<Prose>>}),
     health : Responses({ArrText(<<>>),
                         ArrText(<<RecommendationText(StrText(<<"Drink", "water">>))>>)}),
     meal_planning : Responses(MealTexts)]

InitEmptyPlan == InitWith(EmptyPlanClients)

SpecEmptyPlan ==
    InitEmptyPlan /\ [][Next]_vars /\ \A t \in Tasks : WF_vars(Resume(t))

\* services for the extraction: each agent's response is a well-formed value
\* of the right shape between prose, or lacks the opening delimiter, the
\* closing delimiter, or both
EmbeddedPlanText ==
    PlanText(<<ItemText(StrText(W("apple")), NumText(900))>>)

ExtractionTexts(valueText) ==
    { <<Prose>> \o valueText \o <<Prose>>,
      <<Prose>> \o SubSeq(valueText, 1, 1),
      SubSeq(valueText, Len(valueText), Len(valueText)) \o <<Prose>>,
      <<Prose, NumTok(5000)>> }

ExtractionClients ==
    [planning : Responses(ExtractionTexts(EmbeddedPlanText)),
     nutrition : {[ok |-> TRUE, text |-> x]
                  : x \in ExtractionTexts(NutritionText(NutritionOrder, BalancedMeal))},
     health : {[ok |-> TRUE, text |-> x]
               : x \in ExtractionTexts(ArrText(<<RecommendationText(
                                                    StrText(<<"Drink", "water">>))>>))},
     meal_planning : {[ok |-> TRUE, text |-> x]
                      : x \in ExtractionTexts(ArrText(<<SuggestionText>>))}]

InitExtraction == InitWith(ExtractionClients)

SpecExtraction == InitExtraction /\ [][Next]_vars

\* ------------------------------------------------------------- properties
StagePc == <<"planning", "nutrition", "health", "meal_planning", "verification">>

\* the agents that make a generation call, by stage number
StageClient == <<"planning", "nutrition", "health", "meal_planning">>

Ended(t) == pc[t] \in {"done", "failed"}

IsStageEntry(e, k) == e.text = StageMessage[Stages[k]] /\ e.args = <<>>

IsErrorEntry(e) == e.text = "Error in workflow"

IsCompletionEntry(e) == e.text = "Analysis completed with confidence"

\* C1 (state part): the stages a call has invoked are the first stages of
\* Planning, Nutrition, Health, MealPlanning, Verification in that order; a
\* call suspended in stage k has invoked exactly the stages 1..k, the
\* generation calls of the stages before k have all returned a text, and a
\* call that is Done has invoked all five stages and holds the outcome of
\* Verification.
C1_Order ==
    \A t \in Tasks :
        /\ Len(invoked[t]) <= Len(Stages)
        /\ invoked[t] = SubSeq(Stages, 1, Len(invoked[t]))
        /\ \A k \in 1..Len(Stages) :
              pc[t] = StagePc[k] =>
                  /\ Len(invoked[t]) = k
                  /\ \A j \in 1..(k - 1) : client[StageClient[j]].ok
        /\ pc[t] = "done" =>
                  /\ invoked[t] = Stages
                  /\ verification[t] # None
                  /\ verification[t].ok
                  /\ \A j \in 1..4 : client[StageClient[j]].ok
        /\ pc[t] = "idle" => invoked[t] = <<>>

\* C1 (step part): a stage is invoked only by a call that has not failed,
\* one stage at a time; when the generation call of the stage a call is in
\* fails the call goes to Failed without invoking a stage, and a Failed call
\* stays Failed and invokes nothing more.
C1_Step ==
    \A t \in Tasks :
        /\ invoked'[t] # invoked[t] =>
              /\ pc[t] \notin {"failed", "done"}
              /\ raised[t] = NoException
              /\ invoked'[t] = Append(invoked[t], Stages[Len(invoked[t]) + 1])
        /\ (pc[t] \in {"planning", "nutrition", "health", "meal_planning"}
             /\ ~client[pc[t]].ok /\ pc'[t] # pc[t]) =>
              /\ pc'[t] = "failed"
              /\ invoked'[t] = invoked[t]
        /\ pc[t] = "failed" => (pc'[t] = "failed" /\ invoked'[t] = invoked[t])

\* C1: in every run the stages are invoked in the order Planning, Nutrition,
\* Health, MealPlanning, Verification, each only after the earlier ones have
\* completed without error; Done is reached only after Verification has
\* completed; after a failed generation call no later stage is invoked.
C1_StagesInOrder == []C1_Order /\ [][C1_Step]_vars

\* C1 witness: a call whose Nutrition generation call failed is Failed with
\* only Planning and Nutrition invoked.
C1_Witness ==
    \E t \in Tasks :
        /\ pc[t] = "failed"
        /\ raised[t] = "API call failed"
        /\ invoked[t] = <<"Planning", "Nutrition">>

\* C2 (as claimed): whatever text the generation service returns, a run is
\* Failed only because a generation call failed, never because of an
\* extraction or shape failure.
C2_ShapeFailuresAbsorbed ==
    \A t \in Tasks : pc[t] = "failed" => raised[t] = "API call failed"

\* C3: a call that has raised holds no AnalysisResult, propagates the error,
\* and its log is the entries of the stages it started, in order, followed
\* by exactly one error entry that carries the error.
C3_ErrorLoggedAndRaised ==
    \A t \in Tasks :
        pc[t] = "failed" =>
            /\ raised[t] # NoException
            /\ result[t] = None
            /\ Len(lists[t]) = Len(invoked[t]) + 1
            /\ \A k \in 1..Len(invoked[t]) : IsStageEntry(lists[t][k], k)
            /\ IsErrorEntry(lists[t][Len(lists[t])])
            /\ lists[t][Len(lists[t])].args = <<raised[t]>>

\* C3 witness: a call that failed in the Health stage, with four log entries.
C3_Witness ==
    \E t \in Tasks :
        /\ pc[t] = "failed"
        /\ invoked[t] = <<"Planning", "Nutrition", "Health">>
        /\ Len(lists[t]) = 4
        /\ IsErrorEntry(lists[t][4])

\* the six entries of a completed analysis, all appended by call t
OwnCompleteLog(l, t) ==
    /\ Len(l) = 6
    /\ \A k \in 1..5 : IsStageEntry(l[k], k)
    /\ IsCompletionEntry(l[6])
    /\ \A k \in 1..6 : l[k].by = t

\* C4 (as claimed, state part): with calls interleaved at their generation
\* calls on one orchestrator, the log of every returned AnalysisResult holds
\* exactly the entries of its own analysis, in stage order.
C4_IsolatedLogs ==
    \A t \in Tasks :
        pc[t] = "done" => OwnCompleteLog(lists[result[t].agent_coordination_log], t)

\* C5: while a call is in stage k (from the moment the stage is invoked) its
\* log holds exactly k entries, the entries of the stages 1..k in stage
\* order, the last one being stage k's.
C5_EntryBeforeStage ==
    \A t \in Tasks :
        \A k \in 1..Len(Stages) :
            pc[t] = StagePc[k] =>
                /\ coordination_log = t
                /\ Len(lists[t]) = k
                /\ \A j \in 1..k : IsStageEntry(lists[t][j], j)

\* C5 witness: a call in the Verification stage whose log holds five entries.
C5_Witness ==
    \E t \in Tasks :
        /\ pc[t] = "verification"
        /\ Len(lists[t]) = 5
        /\ IsStageEntry(lists[t][5], 5)

ResultFields ==
    {"food_items", "nutrition", "health_recommendations", "meal_suggestions",
     "confidence_score", "analysis_timestamp", "agent_coordination_log"}

\* an AnalysisResult of call t with every field set
CompleteResult(r, t) ==
    /\ DOMAIN r = ResultFields
    /\ r.food_items = food_items[t]
    /\ r.nutrition = nutrition[t]
    /\ DOMAIN r.nutrition = NutritionFields
    /\ r.health_recommendations = health_recommendations[t]
    /\ r.meal_suggestions = meal_suggestions[t]
    /\ Len(r.confidence_score) = 2
    /\ r.analysis_timestamp \in 0..MaxClock
    /\ r.agent_coordination_log \in 0..NumTasks

\* C6 (state part): a call that is Done has returned a complete
\* AnalysisResult and raised nothing, a Failed call has raised one error and
\* returned nothing, and a call still running has done neither.
C6_Outcome ==
    \A t \in Tasks :
        CASE pc[t] = "done" ->
                 IF DOMAIN result[t] = ResultFields
                 THEN CompleteResult(result[t], t) /\ raised[t] = NoException
                 ELSE FALSE
          [] pc[t] = "failed" -> (result[t] = None /\ raised[t] # NoException)
          [] OTHER -> (result[t] = None /\ raised[t] = NoException)

\* C6: every call of analyze_food_image ends either with a complete
\* AnalysisResult or with one propagated error, never with a partial
\* result, and (every generation call returning or failing) no call stays
\* in an intermediate stage for ever.
C6_CompleteOrError ==
    /\ []C6_Outcome
    /\ \A t \in Tasks : InFlight(t) ~> Ended(t)

\* C6 witness: a call that is Done with its result returned.
C6_Witness ==
    \E t \in Tasks : pc[t] = "done" /\ CompleteResult(result[t], t)

\* the confidences of the items, added up, in thousandths
RECURSIVE TotalMilli(_)
TotalMilli(items) ==
    IF items = <<>> THEN 0
    ELSE Head(items).confidence.num + TotalMilli(Tail(items))

\* C7: the pre-verification aggregate confidence is the arithmetic mean of
\* the items' confidences, and exactly 0.5 for an empty food-item list.
C7_AggregateIsMean ==
    \A t \in Tasks :
        Len(invoked[t]) = 5 =>
            IF food_items[t] = <<>>
            THEN overall_confidence[t] = <<1, 2>>
            ELSE overall_confidence[t][1] * 1000 * Len(food_items[t])
                     = overall_confidence[t][2] * TotalMilli(food_items[t])

\* C7 witness: the aggregate of a list of two items of different confidence.
C7_Witness ==
    \E t \in Tasks :
        /\ Len(invoked[t]) = 5
        /\ Len(food_items[t]) = 2
        /\ food_items[t][1].confidence # food_items[t][2].confidence

\* C8: the confidence_score of the returned AnalysisResult is the mean of
\* the pre-verification aggregate and Verification's overall confidence.
C8_FinalIsTwoTermMean ==
    \A t \in Tasks :
        pc[t] = "done" =>
            RatAdd(result[t].confidence_score, result[t].confidence_score)
                = RatAdd(overall_confidence[t], verification[t].confidence)

\* C8 witness: a returned result whose two terms differ.
C8_Witness ==
    \E t \in Tasks :
        /\ pc[t] = "done"
        /\ overall_confidence[t] # verification[t].confidence
        /\ result[t].confidence_score # overall_confidence[t]

\* C9: the overall confidence of verify_analysis is the unweighted mean of
\* three terms: the confidence of the nutrition check, the confidence of the
\* recommendation check and the confidence_score of the result it was given.
C9_ThreeTermMean ==
    \A t \in Tasks :
        pc[t] = "done" =>
            \E nc \in VerifyNutritionValues(preliminary_result[t].nutrition) :
                LET rc == VerifyRecommendations(
                              preliminary_result[t].health_recommendations,
                              preliminary_result[t].nutrition)
                    c == verification[t].confidence
                IN /\ nc.ok /\ rc.ok
                   /\ nc.status = verification[t].nutrition_status
                   /\ RatAdd(c, RatAdd(c, c))
                          = RatAdd(nc.confidence,
                                   RatAdd(rc.confidence,
                                          preliminary_result[t].confidence_score))

\* C9 witness: an outcome whose three terms are 0.6, 0.5 and 1.5.
C9_Witness ==
    \E t \in Tasks :
        /\ pc[t] = "done"
        /\ verification[t].nutrition_status = "WARNINGS"
        /\ verification[t].recommendation_status = "WARNINGS"
        /\ preliminary_result[t].confidence_score = <<3, 2>>
        /\ verification[t].confidence = <<13, 15>>

\* C10 (as claimed): verified is true exactly when the mean of the three
\* terms is greater than 0.7; a mean of exactly 0.7 gives verified = false.
C10_StrictThreshold ==
    \A t \in Tasks :
        pc[t] = "done" =>
            (verification[t].verified <=> RatLt(Rat(7, 10), verification[t].confidence))

\* the values of a NutritionData whose fields are all numbers, in thousandths
IsNumeric(n) == \A f \in NutritionFields : IsNum(n[f])

HasIssue(issues, text) == \E i \in 1..Len(issues) : issues[i].text = text

CountIssue(issues, text) == Cardinality({i \in 1..Len(issues) : issues[i].text = text})

\* |calories - (4 protein + 4 carbohydrates + 9 fats)|, in thousandths
CalorieDifference(n) ==
    Abs(n.calories.num
        - (4 * n.protein.num + 4 * n.carbohydrates.num + 9 * n.fats.num))

\* C11 (as claimed): for every NutritionData the issue list of Verification
\* holds the calorie-mismatch issue if and only if the difference between
\* the stated calories and 4 protein + 4 carbohydrates + 9 fats is greater
\* than 50; a difference of exactly 50 is not flagged.
C11_MismatchIffOver50 ==
    \A t \in Tasks :
        pc[t] = "done" =>
            (HasIssue(verification[t].issues, "Calorie calculation mismatch")
                <=> CalorieDifference(preliminary_result[t].nutrition) > 50000)

NutritionIssueTexts ==
    {"Negative macronutrient values detected", "Calorie calculation mismatch",
     "Very high sodium content detected"}

\* what C12 says of one result nc of the nutrition check of n (a calorie
\* difference of exactly 50 is left to C11)
NutritionCheckAsClaimed(nc, n) ==
    /\ nc.ok
    /\ \A i \in 1..Len(nc.issues) : nc.issues[i].text \in NutritionIssueTexts
    /\ \A x \in NutritionIssueTexts : CountIssue(nc.issues, x) <= 1
    /\ HasIssue(nc.issues, "Negative macronutrient values detected")
           <=> (n.protein.num < 0 \/ n.carbohydrates.num < 0 \/ n.fats.num < 0)
    /\ CalorieDifference(n) > 50000 => HasIssue(nc.issues, "Calorie calculation mismatch")
    /\ CalorieDifference(n) < 50000 => ~HasIssue(nc.issues, "Calorie calculation mismatch")
    /\ HasIssue(nc.issues, "Very high sodium content detected") <=> n.sodium.num > 2000000
    /\ nc.confidence = (IF nc.issues = <<>> THEN <<9, 10>> ELSE <<3, 5>>)
    /\ nc.status = (IF nc.issues = <<>> THEN "PASS" ELSE "WARNINGS")

\* C12: the nutrition check of a completed run gives confidence 0.9 exactly
\* when it reports no issue and 0.6 otherwise, and it reports one issue for
\* each of the conditions that holds (negative protein, carbohydrates or
\* fats; calorie mismatch; sodium above 2000 mg) and no other issue; the
\* outcome of Verification starts with these issues.
C12_NutritionCheckConfidence ==
    \A t \in Tasks :
        pc[t] = "done" =>
            /\ IsNumeric(preliminary_result[t].nutrition)
            /\ \A nc \in VerifyNutritionValues(preliminary_result[t].nutrition) :
                   NutritionCheckAsClaimed(nc, preliminary_result[t].nutrition)
            /\ \E nc \in VerifyNutritionValues(preliminary_result[t].nutrition) :
                   /\ verification[t].nutrition_status = nc.status
                   /\ Len(verification[t].issues) >= Len(nc.issues)
                   /\ SubSeq(verification[t].issues, 1, Len(nc.issues)) = nc.issues

\* C12 witness: completed runs whose nutrition check reported all three
\* issues.
C12_Witness ==
    \E t \in Tasks :
        /\ pc[t] = "done"
        /\ preliminary_result[t].nutrition.sodium.num = 2500000
        /\ verification[t].nutrition_status = "WARNINGS"
        /\ HasIssue(verification[t].issues, "Very high sodium content detected")
        /\ HasIssue(verification[t].issues, "Calorie calculation mismatch")

\* some message contains the word, in any case of letters
Mentions(recs, word) ==
    \E i \in 1..Len(recs) : \E j \in 1..Len(recs[i].message.str) :
        LowerWord(recs[i].message.str[j]) = word

\* the issues C13 names for recommendations recs and nutrition n
RecommendationIssuesAsClaimed(recs, n) ==
    IssueIf(recs = <<>>, Issue("No health recommendations provided", <<>>))
    \o IssueIf(n.sodium.num > 800000 /\ ~Mentions(recs, "sodium"),
               Issue("High sodium not addressed in recommendations", <<>>))
    \o IssueIf(n.fiber.num < 5000 /\ ~Mentions(recs, "fiber"),
               Issue("Low fiber not addressed in recommendations", <<>>))

\* C13: the recommendation check of a completed run flags an empty
\* recommendation list, sodium above 800 that no message mentions and fiber
\* below 5 that no message mentions (in any case of letters), and nothing
\* else; its confidence is 0.8 exactly when nothing is flagged and 0.5
\* otherwise; the outcome of Verification ends with these issues.
C13_RecommendationCheck ==
    \A t \in Tasks :
        pc[t] = "done" =>
            \E rc \in {VerifyRecommendations(preliminary_result[t].health_recommendations,
                                              preliminary_result[t].nutrition)} :
            \E claimed \in {RecommendationIssuesAsClaimed(
                                 preliminary_result[t].health_recommendations,
                                 preliminary_result[t].nutrition)} :
                /\ rc.ok
                /\ rc.issues = claimed
                /\ rc.confidence = (IF claimed = <<>> THEN <<4, 5>> ELSE <<1, 2>>)
                /\ verification[t].recommendation_status
                       = (IF claimed = <<>> THEN "PASS" ELSE "WARNINGS")
                /\ Len(verification[t].issues) >= Len(claimed)
                /\ SubSeq(verification[t].issues,
                          Len(verification[t].issues) - Len(claimed) + 1,
                          Len(verification[t].issues)) = claimed

\* C13 witness: sodium 1500 and fiber 3 with a recommendation that mentions
\* neither: both are flagged.
C13_Witness ==
    \E t \in Tasks :
        /\ pc[t] = "done"
        /\ preliminary_result[t].nutrition.sodium.num = 1500000
        /\ preliminary_result[t].nutrition.fiber.num = 3000
        /\ preliminary_result[t].health_recommendations # <<>>
        /\ HasIssue(verification[t].issues, "High sodium not addressed in recommendations")
        /\ HasIssue(verification[t].issues, "Low fiber not addressed in recommendations")
        /\ verification[t].recommendation_status = "WARNINGS"

\* a float value in [0, 1]
InUnitInterval(x) == 0 <= x[1] /\ x[1] <= x[2]

\* C14 (as claimed): the pre-verification aggregate, the overall confidence
\* of Verification and the confidence_score of the returned result lie in
\* [0, 1], whatever confidence the items of the parsed plan carry.
C14_ConfidencesInUnitInterval ==
    \A t \in Tasks :
        /\ Len(invoked[t]) = 5 => InUnitInterval(overall_confidence[t])
        /\ pc[t] = "done" =>
               /\ InUnitInterval(verification[t].confidence)
               /\ InUnitInterval(result[t].confidence_score)

\* C15 (as claimed): when a field of the NutritionData is negative the run
\* still reaches Done (Verification does not raise) and the issue list of
\* Verification holds an issue that reports the negative value.
C15_NegativeValueReported ==
    \A t \in Tasks :
        (/\ Len(invoked[t]) = 5
         /\ pc[t] # "verification"
         /\ IsNumeric(nutrition[t])
         /\ \E f \in NutritionFields : nutrition[t][f].num < 0) =>
            /\ pc[t] = "done"
            /\ HasIssue(verification[t].issues, "Negative macronutrient values detected")

\* the message strings of a log, without the timestamps
Messages(l) == [i \in 1..Len(l) |-> [text |-> l[i].text, args |-> l[i].args]]

\* C16: two calls made one after the other on one orchestrator, with a
\* generation service that answers each agent the same way, end alike: both
\* raise the same error, or both return results equal in food items,
\* nutrition, recommendations, suggestions and confidence score whose logs
\* hold the same messages in the same order (timestamps apart); the log of
\* each result holds only entries of its own call.
C16_Idempotent ==
    \A t, u \in Tasks :
        (Ended(t) /\ Ended(u)) =>
            /\ pc[t] = pc[u]
            /\ raised[t] = raised[u]
            /\ pc[t] = "done" =>
                  /\ result[t].food_items = result[u].food_items
                  /\ result[t].nutrition = result[u].nutrition
                  /\ result[t].health_recommendations = result[u].health_recommendations
                  /\ result[t].meal_suggestions = result[u].meal_suggestions
                  /\ result[t].confidence_score = result[u].confidence_score
                  /\ Messages(lists[result[t].agent_coordination_log])
                         = Messages(lists[result[u].agent_coordination_log])
                  /\ \A i \in 1..Len(lists[result[u].agent_coordination_log]) :
                         lists[result[u].agent_coordination_log][i].by = u

\* C16 witness: two completed calls with different timestamps.
C16_Witness ==
    \E t, u \in Tasks :
        /\ t # u
        /\ pc[t] = "done" /\ pc[u] = "done"
        /\ result[t].analysis_timestamp # result[u].analysis_timestamp
        /\ Len(lists[result[u].agent_coordination_log]) = 6

\* the outputs of the four stages for the responses of the service
StageOutputs ==
    [food_items |-> BuildFoodItems(PlanFromResponse(client.planning.text)).val,
     nutrition |-> NutritionFromResponse(client.nutrition.text),
     health_recommendations |-> RecommendationsFromResponse(client.health.text),
     meal_suggestions |-> SuggestionsFromResponse(client.meal_planning.text)]

\* C17 (state part): the result given to Verification still holds the
\* outputs of the four stages, the pre-verification confidence, the start
\* time and the four log entries made before it was built; the returned
\* result holds the same food items, nutrition, recommendations and
\* suggestions.
C17_Frame ==
    \A t \in Tasks :
        pc[t] = "done" =>
            /\ \E out \in {StageOutputs} :
                  \A f \in DOMAIN out :
                      /\ preliminary_result[t][f] = out[f]
                      /\ result[t][f] = out[f]
            /\ preliminary_result[t].confidence_score = overall_confidence[t]
            /\ preliminary_result[t].analysis_timestamp = start_time[t]
            /\ preliminary_result[t].agent_coordination_log = SubSeq(lists[t], 1, 4)
            /\ result[t].analysis_timestamp = start_time[t]

\* C17 (step part): once built, the result given to Verification is never
\* changed, in particular not by verify_analysis.
C17_Step ==
    \A t \in Tasks :
        pc[t] \in {"verification", "done", "failed"} =>
            preliminary_result'[t] = preliminary_result[t]

\* C17: Verification leaves the AnalysisResult it receives unchanged, and the
\* returned result differs from it in nothing the stages produced.
C17_VerificationLeavesResult == []C17_Frame /\ [][C17_Step]_vars

\* C17 witness: a completed call whose returned confidence differs from the
\* confidence of the result given to Verification.
C17_Witness ==
    \E t \in Tasks :
        /\ pc[t] = "done"
        /\ result[t].confidence_score # preliminary_result[t].confidence_score
        /\ Len(preliminary_result[t].agent_coordination_log) = 4
        /\ Len(lists[result[t].agent_coordination_log]) = 6

\* the plan of call t holds an empty food-item list
EmptyPlan(t) ==
    /\ plan[t] # None
    /\ "food_items" \in DOMAIN plan[t].obj
    /\ plan[t].obj.food_items = JArr(<<>>)

AllAnswer == \A a \in DOMAIN client : client[a].ok

\* C18 (state part): a call whose plan holds an empty food-item list has
\* invoked Nutrition with that empty list, fails only when a generation call
\* fails, and has the pre-verification confidence 0.5 when it invokes
\* Verification.
C18_EmptyListAccepted ==
    \A t \in Tasks :
        EmptyPlan(t) =>
            /\ Len(invoked[t]) >= 2
            /\ received[t][2].food_items = JArr(<<>>)
            /\ food_items[t] = <<>>
            /\ pc[t] = "failed" => raised[t] = "API call failed"
            /\ Len(invoked[t]) = 5 => overall_confidence[t] = <<1, 2>>
            /\ pc[t] = "done" => invoked[t] = Stages

\* C18: with an empty food-item list from Planning the Nutrition stage is
\* invoked with the empty list and does not fail, and when the generation
\* calls all return, Health, MealPlanning and Verification run and the call
\* reaches Done with the pre-verification confidence 0.5.
C18_EmptyPlanReachesDone ==
    /\ []C18_EmptyListAccepted
    /\ \A t \in Tasks :
          (EmptyPlan(t) /\ AllAnswer) ~> (pc[t] = "done" /\ invoked[t] = Stages)

\* C18 witness: a completed call with no food item.
C18_Witness ==
    \E t \in Tasks :
        /\ EmptyPlan(t)
        /\ pc[t] = "done"
        /\ result[t].food_items = <<>>
        /\ overall_confidence[t] = <<1, 2>>

\* no character of the text is the delimiter c
Lacks(text, c) == \A i \in 1..Len(text) : ~IsCh(text[i], c)

\* the text is one well-formed JSON value that starts with the delimiter
\* open, between prose: the set holds the value
Embedded(text, open) ==
    { Loads(SubSeq(text, i, j)).val :
        <<i, j>> \in { p \in (1..Len(text)) \X (1..Len(text)) :
                         /\ p[1] <= p[2]
                         /\ IsCh(text[p[1]], open)
                         /\ \A k \in 1..Len(text) :
                               (k < p[1] \/ k > p[2]) => text[k] = Prose
                         /\ Loads(SubSeq(text, p[1], p[2])).ok } }

\* what C19 says of the output out of a stage for the response text: the
\* fallback when a delimiter is missing, the value (as the stage holds it,
\* given by held) when the text is a value of the stage's shape in prose
ExtractionAsClaimed(text, open, close, out, fallback, held(_)) ==
    /\ (Lacks(text, open) \/ Lacks(text, close)) => out = fallback
    /\ \A v \in Embedded(text, open) : out = held(v)

HeldPlan(v) == v

HeldNutrition(v) == v.obj

HeldRecords(v) == [i \in 1..Len(v.arr) |-> v.arr[i].obj]

\* C19: each stage's extraction gives the stage's fallback when the response
\* has no opening delimiter, no closing delimiter or neither, and the parsed
\* value, not the fallback, when the response is one well-formed value (of
\* the shape the stage expects) between prose without delimiters.
C19_Extraction ==
    \A t \in Tasks :
        /\ plan[t] # None =>
              ExtractionAsClaimed(client.planning.text, "{", "}", plan[t],
                                  FallbackPlan, HeldPlan)
        /\ nutrition[t] # None =>
              ExtractionAsClaimed(client.nutrition.text, "{", "}", nutrition[t],
                                  FallbackNutrition, HeldNutrition)
        /\ Len(invoked[t]) >= 4 =>
              ExtractionAsClaimed(client.health.text, "[", "]",
                                  health_recommendations[t],
                                  FallbackRecommendations, HeldRecords)
        /\ Len(invoked[t]) = 5 =>
              ExtractionAsClaimed(client.meal_planning.text, "[", "]",
                                  meal_suggestions[t],
                                  FallbackSuggestions, HeldRecords)

\* C19 witness: a call that holds a parsed plan and parsed recommendations,
\* both taken from between prose, and the fallback suggestions.
C19_Witness ==
    \E t \in Tasks :
        /\ Len(invoked[t]) = 5
        /\ Embedded(client.planning.text, "{") # {}
        /\ plan[t] # FallbackPlan
        /\ Embedded(client.health.text, "[") # {}
        /\ health_recommendations[t] # FallbackRecommendations
        /\ Lacks(client.meal_planning.text, "[")
        /\ meal_suggestions[t] = FallbackSuggestions

\* the arguments the code gives to stage k of call t
ArgsAsClaimed(t, k) ==
    CASE k = 1 -> [image_base64 |-> "image"]
      [] k = 2 -> [food_items |-> plan[t].obj.food_items, plan |-> plan[t]]
      [] k = 3 -> [nutrition |-> nutrition[t],
                   food_items |-> plan[t].obj.food_items,
                   user_profile |-> user_profile[t]]
      [] k = 4 -> [nutrition |-> nutrition[t], food_items |-> plan[t].obj.food_items]
      [] k = 5 -> [result |->
                      [food_items |-> BuildFoodItems(plan[t]).val,
                       nutrition |-> nutrition[t],
                       health_recommendations |-> health_recommendations[t],
                       meal_suggestions |-> meal_suggestions[t],
                       confidence_score |-> overall_confidence[t],
                       analysis_timestamp |-> start_time[t],
                       agent_coordination_log |-> SubSeq(lists[t], 1, 4)]]

\* C20: every stage a call has invoked was given the outputs of the earlier
\* stages as they were returned: Nutrition the food-item list of the plan
\* Planning returned; Health and MealPlanning the NutritionData Nutrition
\* returned and that food-item list; Verification a result holding the
\* outputs of the four stages; the user profile goes to Health and to no
\* other stage.
C20_Threading ==
    \A t \in Tasks :
        /\ Len(received[t]) = Len(invoked[t])
        /\ \A k \in 1..Len(received[t]) :
              /\ received[t][k] = ArgsAsClaimed(t, k)
              /\ ("user_profile" \in DOMAIN received[t][k]) <=> (k = 3)
        /\ plan[t] # None => plan[t] = PlanFromResponse(client.planning.text)
        /\ nutrition[t] # None => nutrition[t] = NutritionFromResponse(client.nutrition.text)

\* C20 witness: a call with a user profile that has invoked all five stages,
\* with nutrition data that is not the default.
C20_Witness ==
    \E t \in Tasks :
        /\ Len(received[t]) = 5
        /\ user_profile[t] # None
        /\ received[t][3].user_profile = user_profile[t]
        /\ received[t][4].nutrition # FallbackNutrition
        /\ received[t][5].result.food_items # <<>>


\* the stage a call has reached: the number of stages it has invoked
StageReached(t) == Len(invoked[t])

\* C21 (as claimed): a call that is Done has made exactly four generation
\* calls, one per agent in the order Planning, Nutrition, Health,
\* MealPlanning (so none is repeated and the nutrition data is produced
\* once); a call in the Verification stage has made the same four calls and
\* Verification adds none; a call that failed in stage k has made exactly k
\* generation calls.
C21_CallsPerStage ==
    \A t \in Tasks :
        /\ pc[t] \in {"verification", "done"} => calls[t] = StageClient
        /\ pc[t] = "failed" => Len(calls[t]) = StageReached(t)


\* the log carried by the result given to Verification is the four entries
\* of Planning, Nutrition, Health and MealPlanning
FourStageSnapshot(l) ==
    /\ Len(l) = 4
    /\ \A k \in 1..4 : IsStageEntry(l[k], k)

\* C22 (state part): the result handed to Verification carries exactly the
\* four entries of Planning, Nutrition, Health and MealPlanning, whatever is
\* appended to the log afterwards; the result returned on Done carries
\* exactly six entries, the five stage entries in stage order followed by
\* one completion entry.
C22_Entries ==
    \A t \in Tasks :
        /\ preliminary_result[t] # None =>
                /\ FourStageSnapshot(preliminary_result[t].agent_coordination_log)
                /\ Len(lists[t]) > 4
        /\ pc[t] = "done" =>
                \E l \in {lists[result[t].agent_coordination_log]} :
                    /\ Len(l) = 6
                    /\ \A k \in 1..5 : IsStageEntry(l[k], k)
                    /\ IsCompletionEntry(l[6])
                    /\ SubSeq(l, 1, 4) = preliminary_result[t].agent_coordination_log

\* C22 (step part): a step that appends to the log of a call leaves the
\* snapshot in the result handed to Verification as it was.
C22_Step ==
    \A t \in Tasks :
        preliminary_result[t] # None =>
            /\ preliminary_result'[t] # None
            /\ preliminary_result'[t].agent_coordination_log =
                   preliminary_result[t].agent_coordination_log

\* C22: the result handed to Verification carries a four-entry snapshot of
\* the log that later appends do not change, and the result returned on Done
\* carries six entries: five stage entries in order and one completion entry.
C22_SnapshotAndFinalLog == []C22_Entries /\ [][C22_Step]_vars

\* C22 witness: a completed call whose list has grown by the Verification
\* and completion entries since the snapshot of four entries was taken.
C22_Witness ==
    \E t \in Tasks :
        /\ pc[t] = "done"
        /\ FourStageSnapshot(preliminary_result[t].agent_coordination_log)
        /\ Len(lists[result[t].agent_coordination_log]) =
               Len(preliminary_result[t].agent_coordination_log) + 2
        /\ IsCompletionEntry(lists[result[t].agent_coordination_log][6])


\* every stage of call t holds the value its agent substitutes on a failed
\* extraction
AllFallbacks(t) ==
    /\ plan[t] = FallbackPlan
    /\ nutrition[t] = FallbackNutrition
    /\ health_recommendations[t] = FallbackRecommendations
    /\ meal_suggestions[t] = FallbackSuggestions

\* C23: when all four agents substitute their fallback values the call holds
\* one unknown_food item of confidence 0.5 and does not fail; both checks of
\* Verification pass with no issue and the confidences 0.9 and 0.8, the
\* pre-verification confidence is 0.5, the overall verification confidence
\* is 2.2/3, verified is true, and the returned confidence is the mean of
\* 0.5 and 2.2/3.
C23_AllFallbacksVerified ==
    \A t \in Tasks :
        AllFallbacks(t) =>
            /\ pc[t] \in {"verification", "done"}
            /\ Len(food_items[t]) = 1
            /\ food_items[t][1].name = JStr(W("unknown_food"))
            /\ food_items[t][1].confidence = JNum(500)
            /\ overall_confidence[t] = Milli(500)
            /\ \A c \in VerifyNutritionValues(nutrition[t]) :
                   c.ok /\ c.confidence = Milli(900) /\ c.issues = <<>>
            /\ \E c \in {VerifyRecommendations(health_recommendations[t], nutrition[t])} :
                   c.ok /\ c.confidence = Milli(800) /\ c.issues = <<>>
            /\ pc[t] = "done" =>
                   /\ verification[t].issues = <<>>
                   /\ verification[t].nutrition_status = "PASS"
                   /\ verification[t].recommendation_status = "PASS"
                   /\ verification[t].confidence = RatDiv(Milli(2200), 3)
                   /\ verification[t].verified
                   /\ result[t].confidence_score =
                          RatDiv(RatAdd(Milli(500), RatDiv(Milli(2200), 3)), 2)

\* C23 witness: a completed call in which every agent substituted its
\* fallback value.
C23_Witness ==
    \E t \in Tasks :
        /\ pc[t] = "done"
        /\ AllFallbacks(t)
        /\ client.planning.ok /\ PlanFromResponse(client.planning.text) = FallbackPlan
        /\ verification[t].verified


\* C24 (as claimed): for a pre-verification confidence in [0, 1], when both
\* the nutrition check and the recommendation check report an issue verified
\* is false, and when neither reports an issue verified is true exactly when
\* the pre-verification confidence is greater than 0.4.
C24_VerifiedByIssues ==
    \A t \in Tasks :
        (pc[t] = "done" /\ InUnitInterval(overall_confidence[t])) =>
            \E v \in {verification[t]} :
                /\ (v.nutrition_status = "WARNINGS" /\ v.recommendation_status = "WARNINGS")
                       => ~v.verified
                /\ (v.nutrition_status = "PASS" /\ v.recommendation_status = "PASS")
                       => (v.verified <=> RatLt(Milli(400), overall_confidence[t]))

====
